---- MODULE Spec2Model ----
(***************************************************************************)
(* State-machine model of the shift checklist web application (app.py).   *)
(*                                                                         *)
(* The five tables are the variables user, shift, shift_step, progress    *)
(* and note.  user, shift and shift_step are sets of rows keyed by their  *)
(* AUTOINCREMENT id; seq is sqlite_sequence.  No statement ever reads or  *)
(* compares progress.id or note.id for anything but counting, so these    *)
(* two tables are bags of rows: the multiplicity of a row is the number   *)
(* of ids carrying the same column values.                                 *)
(*                                                                         *)
(* Strings that the code converts (emails, steps text, note content) are  *)
(* sequences of one-character strings; strip(), lower() and split('\n')   *)
(* are computed on them.  Timestamps are readings of a clock that never   *)
(* goes back; isoformat() text compares in clock order.                    *)
(*                                                                         *)
(* Every request has its own connection.  SELECTs run in autocommit, the  *)
(* first INSERT/UPDATE/DELETE of a handler opens a transaction that holds *)
(* the write lock until commit, so the write part of a handler is one     *)
(* step and the reads before it are separate steps.                        *)
(*                                                                         *)
(* Spec is the application behind a worker that serves one request at a   *)
(* time, from a fresh install: a handler is one action.  SpecWork is the  *)
(* same worker with a registered user logged in and an operator with      *)
(* admin access, on every shift and step id.  SpecConc is the application *)
(* behind a threaded server: the handlers that read before they write are *)
(* split at their statements, and req holds the locals of the requests in *)
(* flight.                                                                 *)
(***************************************************************************)
EXTENDS Integers, Sequences, FiniteSets, Bags, TLC

VARIABLES user, shift, shift_step, progress, note, seq, now,
          session, req

tables == <<user, shift, shift_step, progress, note, seq>>
vars == <<user, shift, shift_step, progress, note, seq, now,
          session, req>>

----------------------------------------------------------------------------
(* Bounds of the model *)

MaxShiftId == 2
MaxStepId == 2
MaxClock == 1
MaxNotes == 1

----------------------------------------------------------------------------
(* Strings *)

AdminEmail == <<"a","d","m","i","n","@","e","x","a","m","p","l","e",".","c","o","m">>
AdminPassword == "admin123"
AdminPassphrase == "admin123"

IsSpace(c) == c \in {" ", "\t", "\r", "\n"}

Lower(c) ==
  CASE c = "A" -> "a"
    [] c = "B" -> "b"
    [] OTHER -> c

lower(s) == [i \in 1..Len(s) |-> Lower(s[i])]

RECURSIVE lstrip(_)
lstrip(s) ==
  IF s = <<>> THEN s
  ELSE IF IsSpace(Head(s)) THEN lstrip(Tail(s)) ELSE s

RECURSIVE rstrip(_)
rstrip(s) ==
  IF s = <<>> THEN s
  ELSE IF IsSpace(s[Len(s)]) THEN rstrip(SubSeq(s, 1, Len(s) - 1)) ELSE s

strip(s) == rstrip(lstrip(s))

(* str.split('\n'): always at least one piece, '' gives [''] *)
RECURSIVE split(_)
split(s) ==
  IF \A i \in 1..Len(s) : s[i] # "\n" THEN <<s>>
  ELSE LET i == CHOOSE k \in 1..Len(s) :
                  s[k] = "\n" /\ \A j \in 1..(k - 1) : s[j] # "\n"
       IN <<SubSeq(s, 1, i - 1)>> \o split(SubSeq(s, i + 1, Len(s)))

(* a register and login that forget lower() *)
NormEmail_no_lower(raw) == strip(raw)

(* email = request.form['email'].strip().lower() *)
NormEmail(raw) == lower(strip(raw))

(* generate_password_hash / check_password_hash *)
generate_password_hash(pw) == <<"hash", pw>>

(* a login that accepts any password of a known email *)
check_password_hash_any(h, pw) == TRUE

check_password_hash(h, pw) == h[2] = pw

----------------------------------------------------------------------------
(* Request inputs *)

Sessions == {"c1", "c2"}

RawEmails == { AdminEmail,
               <<" ", "A">> \o Tail(AdminEmail),
               <<"b", "@", "x">>,
               <<"B", "@", "x", " ">> }

Passwords == {"admin123", "pw"}

Titles == {"Opening", "Closing"}

StepsTexts == { <<>>,
                <<" ", "\r", "\n", "u", " ">>,
                <<" ", "u", "\r", "\n", "\r", "\n", "t">> }

NoteContents == { <<>>, <<" ", "\t">>, <<" ", "r">> }

ShiftIds == 1..MaxShiftId
StepIds == 1..MaxStepId

----------------------------------------------------------------------------
(* Responses: render_template / redirect, the message flashed by the       *)
(* handler, and the current_shift handed to dashboard.html (0: None).  A   *)
(* response is a function of the request and of the state the handler     *)
(* finds; the *_response operators are the return statements.              *)

Render(view, flash) == [kind |-> "render", target |-> view, flash |-> flash, current_shift |-> 0]
Redirect(endpoint, flash) == [kind |-> "redirect", target |-> endpoint, flash |-> flash, current_shift |-> 0]

(* login_required with login.login_view = 'login' *)
Unauthorized == Redirect("login", "Please log in to access this page.")

NoAdminAccess == Redirect("admin_access", "Nemas opravneni")

----------------------------------------------------------------------------
(* Queries *)

(* SELECT * FROM user WHERE email=? *)
UserByEmail(email) == {u \in user : u.email = email}

(* SELECT * FROM shift WHERE id=? *)
ShiftById(shift_id) == {s \in shift : s.id = shift_id}

StepsOf(shift_id) == {t \in shift_step : t.shift_id = shift_id}

(* SELECT * FROM shift_step WHERE shift_id=? ORDER BY position: the ids *)
RECURSIVE OrderByPosition(_)
OrderByPosition(rows) ==
  IF rows = {} THEN <<>>
  ELSE LET first == CHOOSE t \in rows : \A o \in rows : t.position <= o.position
       IN <<first.id>> \o OrderByPosition(rows \ {first})

SelectSteps(shift_id) == OrderByPosition(StepsOf(shift_id))

(* the rows of a bag that satisfy WHERE user_id=? AND shift_id=? *)
ProgressOf(b, user_id, shift_id) ==
  {p \in DOMAIN b : p.user_id = user_id /\ p.shift_id = shift_id}

RECURSIVE CountRows(_, _)
CountRows(b, rows) ==
  IF rows = {} THEN 0
  ELSE LET p == CHOOSE x \in rows : TRUE
       IN b[p] + CountRows(b, rows \ {p})

RECURSIVE SumCompleted(_, _)
SumCompleted(b, rows) ==
  IF rows = {} THEN 0
  ELSE LET p == CHOOSE x \in rows : TRUE
       IN b[p] * p.completed + SumCompleted(b, rows \ {p})

MaxTimestamp(rows) ==
  CHOOSE m \in {p.timestamp : p \in rows} : \A p \in rows : p.timestamp <= m

(* DELETE FROM <bag table> WHERE cond: keep the rows outside gone *)
DeleteRows(b, gone) == [p \in (DOMAIN b) \ gone |-> b[p]]

(* INSERT of one row into a bag table *)
InsertRow(b, row) == b (+) SetToBag({row})

(* dashboard: JOIN progress ... WHERE p.user_id=? GROUP BY s.id
   HAVING SUM(p.completed) < COUNT(p.id) *)
DashboardGroups(user_id) ==
  {s \in shift :
      LET rows == ProgressOf(progress, user_id, s.id)
      IN /\ rows # {}
         /\ SumCompleted(progress, rows) < CountRows(progress, rows)}

(* a dashboard query that orders ascending *)
DashboardQuery_oldest(user_id) ==
  LET groups == DashboardGroups(user_id)
      latest(s) == MaxTimestamp(ProgressOf(progress, user_id, s.id))
  IN IF groups = {} THEN {0}
     ELSE {s.id : s \in {g \in groups : \A o \in groups : latest(g) <= latest(o)}}

(* ORDER BY MAX(p.timestamp) DESC LIMIT 1: the ids that can come first,
   0 is fetchone() = None *)
DashboardQuery(user_id) ==
  LET groups == DashboardGroups(user_id)
      latest(s) == MaxTimestamp(ProgressOf(progress, user_id, s.id))
  IN IF groups = {} THEN {0}
     ELSE {s.id : s \in {g \in groups : \A o \in groups : latest(o) <= latest(g)}}

----------------------------------------------------------------------------
(* Steps text of the admin forms *)

(* an insert loop that counts the blank lines too *)
RECURSIVE InsertSteps_gap(_, _, _, _)
InsertSteps_gap(lines, shift_id, pos, lastid) ==
  IF lines = <<>> THEN {}
  ELSE LET s == strip(Head(lines))
       IN IF s # <<>>
          THEN {[id |-> lastid + 1, shift_id |-> shift_id, position |-> pos, description |-> s]}
                 \cup InsertSteps_gap(Tail(lines), shift_id, pos + 1, lastid + 1)
          ELSE InsertSteps_gap(Tail(lines), shift_id, pos + 1, lastid)

(* for s in steps: s = s.strip(); if s: INSERT ...; pos += 1 *)
RECURSIVE InsertSteps(_, _, _, _)
InsertSteps(lines, shift_id, pos, lastid) ==
  IF lines = <<>> THEN {}
  ELSE LET s == strip(Head(lines))
       IN IF s # <<>>
          THEN {[id |-> lastid + 1, shift_id |-> shift_id, position |-> pos, description |-> s]}
                 \cup InsertSteps(Tail(lines), shift_id, pos + 1, lastid + 1)
          ELSE InsertSteps(Tail(lines), shift_id, pos, lastid)

StepRows(text, shift_id) == InsertSteps(split(text), shift_id, 1, seq.shift_step)

----------------------------------------------------------------------------
(* Sessions and requests in flight *)

(* the locals of a handler between its statements *)
Idle == [pc |-> "idle", action |-> "", shift_id |-> 0, user_id |-> 0,
         step_id |-> 0, steps |-> <<>>, row |-> 0]

(* _user_id in the session cookie of client c; 0 when it is absent *)
is_authenticated(c) == session[c].user_id # 0

(* init_db: schema, and the admin account if it is not there *)
init_db ==
  /\ user = {[id |-> 1, email |-> AdminEmail,
              password |-> generate_password_hash(AdminPassword), is_admin |-> 1]}
  /\ shift = {}
  /\ shift_step = {}
  /\ progress = EmptyBag
  /\ note = EmptyBag
  /\ seq = [user |-> 1, shift |-> 0, shift_step |-> 0]

Init ==
  /\ init_db
  /\ now = 0
  /\ session = [c \in Sessions |-> [user_id |-> 0, is_admin_access |-> FALSE]]
  /\ req = [c \in Sessions |-> Idle]

----------------------------------------------------------------------------
(* Handlers that are a single statement or a single transaction *)

(* the UNIQUE constraint of user.email makes the INSERT raise *)
IntegrityError(email) == UserByEmail(email) # {}

register_response(raw) ==
  IF IntegrityError(NormEmail(raw))
  THEN Render("register.html", "Chyba pri registraci: UNIQUE constraint failed: user.email")
  ELSE Redirect("login", "Registrace uspesna, prihlas se.")

(* POST /register *)
register(raw, password) ==
  /\ LET email == NormEmail(raw)
         hashed == generate_password_hash(password)
     IN IF IntegrityError(email)
        THEN UNCHANGED <<user, seq>>
        ELSE /\ user' = user \cup {[id |-> seq.user + 1, email |-> email,
                                    password |-> hashed, is_admin |-> 0]}
             /\ seq' = [seq EXCEPT !.user = @ + 1]
  /\ UNCHANGED <<shift, shift_step, progress, note, now, session, req>>

(* row = cur.fetchone(); if row and check_password_hash(row['password'], password) *)
LoginRows(raw, password) ==
  {u \in UserByEmail(NormEmail(raw)) : check_password_hash(u.password, password)}

login_response(raw, password) ==
  IF LoginRows(raw, password) # {}
  THEN Redirect("dashboard", "Prihlaseni uspesne")
  ELSE Render("login.html", "Spatne prihlasovaci udaje")

(* POST /login *)
login(c, raw, password) ==
  /\ IF LoginRows(raw, password) # {}
     THEN \E row \in LoginRows(raw, password) :
            session' = [session EXCEPT ![c].user_id = row.id]
     ELSE UNCHANGED session
  /\ UNCHANGED <<tables, now, req>>

(* GET /logout *)
logout(c) ==
  /\ IF is_authenticated(c)
     THEN session' = [session EXCEPT ![c].user_id = 0]
     ELSE UNCHANGED session
  /\ UNCHANGED <<tables, now, req>>

(* the responses GET /dashboard can give client c *)
dashboard_response(c) ==
  IF is_authenticated(c)
  THEN {[Render("dashboard.html", "") EXCEPT !.current_shift = current_shift] :
           current_shift \in DashboardQuery(session[c].user_id)}
  ELSE {Unauthorized}

(* GET /dashboard *)
dashboard(c) ==
  /\ dashboard_response(c) # {}
  /\ UNCHANGED vars

shifts_response(c) ==
  IF is_authenticated(c) THEN Render("shifts.html", "") ELSE Unauthorized

(* GET /shifts: SELECT * FROM shift *)
shifts(c) ==
  /\ shifts_response(c).kind \in {"render", "redirect"}
  /\ UNCHANGED vars

(* POST /admin-access *)
admin_access(c, password) ==
  /\ IF password = AdminPassphrase
     THEN session' = [session EXCEPT ![c].is_admin_access = TRUE]
     ELSE UNCHANGED session
  /\ UNCHANGED <<tables, now, req>>

(* a create handler that forgets the admin-access check *)
admin_unchecked(c, title, text) ==
  /\ LET shift_id == seq.shift + 1
         rows == StepRows(text, shift_id)
     IN /\ shift_id <= MaxShiftId
        /\ seq.shift_step + Cardinality(rows) <= MaxStepId
        /\ shift' = shift \cup {[id |-> shift_id, title |-> title,
                                 description |-> "", is_template |-> 1]}
        /\ shift_step' = shift_step \cup rows
        /\ seq' = [seq EXCEPT !.shift = shift_id,
                              !.shift_step = @ + Cardinality(rows)]
  /\ UNCHANGED <<user, progress, note, now, session, req>>

(* POST /admin: create a shift and its steps *)
admin(c, title, text) ==
  /\ IF ~session[c].is_admin_access
     THEN UNCHANGED <<shift, shift_step, seq>>
     ELSE LET shift_id == seq.shift + 1
              rows == StepRows(text, shift_id)
          IN /\ shift_id <= MaxShiftId
             /\ seq.shift_step + Cardinality(rows) <= MaxStepId
             /\ shift' = shift \cup {[id |-> shift_id, title |-> title,
                                      description |-> "", is_template |-> 1]}
             /\ shift_step' = shift_step \cup rows
             /\ seq' = [seq EXCEPT !.shift = shift_id,
                                   !.shift_step = @ + Cardinality(rows)]
  /\ UNCHANGED <<user, progress, note, now, session, req>>

(* UPDATE shift, DELETE FROM shift_step, the INSERT loop *)
EditShift(shift_id, title, text) ==
  LET rows == StepRows(text, shift_id)
  IN /\ seq.shift_step + Cardinality(rows) <= MaxStepId
     /\ shift' = {IF s.id = shift_id
                  THEN [s EXCEPT !.title = title, !.description = ""] ELSE s : s \in shift}
     /\ shift_step' = (shift_step \ StepsOf(shift_id)) \cup rows
     /\ seq' = [seq EXCEPT !.shift_step = @ + Cardinality(rows)]

(* POST /admin/edit/<shift_id> *)
edit_shift(c, shift_id, title, text) ==
  /\ IF ~session[c].is_admin_access \/ ShiftById(shift_id) = {}
     THEN UNCHANGED <<shift, shift_step, seq>>
     ELSE EditShift(shift_id, title, text)
  /\ UNCHANGED <<user, progress, note, now, session, req>>

(* a delete handler that forgets the notes *)
delete_shift_keeps_notes(c, shift_id) ==
  /\ IF ~session[c].is_admin_access
     THEN UNCHANGED <<shift, shift_step, progress>>
     ELSE /\ progress' = DeleteRows(progress, {p \in DOMAIN progress : p.shift_id = shift_id})
          /\ shift_step' = shift_step \ StepsOf(shift_id)
          /\ shift' = shift \ ShiftById(shift_id)
  /\ UNCHANGED <<user, note, seq, now, session, req>>

(* POST /admin/delete/<shift_id> *)
delete_shift(c, shift_id) ==
  /\ IF ~session[c].is_admin_access
     THEN UNCHANGED <<shift, shift_step, progress, note>>
     ELSE /\ progress' = DeleteRows(progress, {p \in DOMAIN progress : p.shift_id = shift_id})
          /\ shift_step' = shift_step \ StepsOf(shift_id)
          /\ note' = DeleteRows(note, {n \in DOMAIN note : n.shift_id = shift_id})
          /\ shift' = shift \ ShiftById(shift_id)
  /\ UNCHANGED <<user, seq, now, session, req>>

----------------------------------------------------------------------------
(* Writes of shift_detail, as functions of the progress table *)

(* the timestamps of consecutive utcnow() calls: n readings from t0 on *)
Readings(n, t0) ==
  {ts \in [1..n -> t0..MaxClock] : \A i \in 1..n : \A j \in i..n : ts[i] <= ts[j]}

(* for s in steps: INSERT INTO progress ... (user, shift, s['id'], 0, utcnow()) *)
RECURSIVE InsertProgress(_, _, _, _, _, _)
InsertProgress(b, user_id, shift_id, steps, ts, i) ==
  IF i > Len(steps) THEN b
  ELSE InsertProgress(
         InsertRow(b, [user_id |-> user_id, shift_id |-> shift_id, step_id |-> steps[i],
                       completed |-> 0, timestamp |-> ts[i]]),
         user_id, shift_id, steps, ts, i + 1)

(* a select_shift that forgets the DELETE *)
SelectShift_no_delete(b, user_id, shift_id, steps, ts) ==
  InsertProgress(b, user_id, shift_id, steps, ts, 1)

(* action == 'select_shift': DELETE, then one INSERT per step read *)
SelectShift(b, user_id, shift_id, steps, ts) ==
  InsertProgress(DeleteRows(b, ProgressOf(b, user_id, shift_id)),
                 user_id, shift_id, steps, ts, 1)

(* WHERE user_id=? AND shift_id=? AND step_id=? *)
ProgressRow(b, user_id, shift_id, step_id) ==
  {p \in ProgressOf(b, user_id, shift_id) : p.step_id = step_id}

(* UPDATE progress SET completed=?, timestamp=? WHERE ... *)
RECURSIVE UpdateRows(_, _, _, _)
UpdateRows(b, rows, newc, t) ==
  IF rows = {} THEN b
  ELSE LET p == CHOOSE x \in rows : TRUE
           q == [p EXCEPT !.completed = newc, !.timestamp = t]
       IN UpdateRows(DeleteRows(b, {p}), rows \ {p}, newc, t) (+) [x \in {q} |-> b[p]]

(* a toggle that only ever completes *)
NewCompleted_stuck(completed) == 1

(* newc = 0 if row['completed'] else 1 *)
NewCompleted(completed) == IF completed # 0 THEN 0 ELSE 1

(* action == 'complete_shift' *)
CompleteShift(b, user_id, shift_id) == DeleteRows(b, ProgressOf(b, user_id, shift_id))

(* row = cur.fetchone() of the toggle's SELECT completed: the values it can
   return, {} when there is no row *)
ToggleRead(user_id, shift_id, step_id) ==
  {p.completed : p \in ProgressRow(progress, user_id, shift_id, step_id)}

(* UPDATE of the row(s) toggled, stamped t *)
ToggleUpdate(user_id, shift_id, step_id, completed) ==
  \E t \in now..MaxClock :
    /\ progress' = UpdateRows(progress, ProgressRow(progress, user_id, shift_id, step_id),
                              NewCompleted(completed), t)
    /\ now' = t

(* action == 'select_shift' on the steps read *)
SelectWrite(user_id, shift_id, steps) ==
  \E ts \in Readings(Len(steps), now) :
    /\ progress' = SelectShift(progress, user_id, shift_id, steps, ts)
    /\ now' = IF ts = <<>> THEN now ELSE ts[Len(ts)]

add_note_response(raw) ==
  IF strip(raw) # <<>>
  THEN Redirect("shift_detail", "Poznamka pridana.")
  ELSE Redirect("shift_detail", "Poznamka nesmi byt prazdna.")

(* action == 'add_note' *)
AddNote(user_id, shift_id, raw) ==
  LET content == strip(raw)
  IN IF content # <<>>
     THEN /\ BagCardinality(note) < MaxNotes
          /\ \E t \in now..MaxClock :
               /\ note' = InsertRow(note, [shift_id |-> shift_id, user_id |-> user_id,
                                           content |-> content, timestamp |-> t])
               /\ now' = t
     ELSE UNCHANGED <<note, now>>

----------------------------------------------------------------------------
(* shift_detail, POST /shift/<shift_id>, served without interleaving *)

(* login_required, then the shift lookup: the response that ends the
   request early, or kind "pass" *)
DetailGate(c, shift_id) ==
  IF ~is_authenticated(c) THEN Unauthorized
  ELSE IF ShiftById(shift_id) = {} THEN Redirect("shifts", "Smena nenalezena")
  ELSE [kind |-> "pass", target |-> "", flash |-> "", current_shift |-> 0]

select_shift(c, shift_id) ==
  /\ IF DetailGate(c, shift_id).kind # "pass"
     THEN UNCHANGED <<progress, now>>
     ELSE SelectWrite(session[c].user_id, shift_id, SelectSteps(shift_id))
  /\ UNCHANGED <<user, shift, shift_step, note, seq, session, req>>

toggle(c, shift_id, step_id) ==
  /\ IF DetailGate(c, shift_id).kind # "pass"
     THEN UNCHANGED <<progress, now>>
     ELSE LET read == ToggleRead(session[c].user_id, shift_id, step_id)
          IN IF read = {}
             THEN UNCHANGED <<progress, now>>
             ELSE \E completed \in read :
                    ToggleUpdate(session[c].user_id, shift_id, step_id, completed)
  /\ UNCHANGED <<user, shift, shift_step, note, seq, session, req>>

complete_shift(c, shift_id) ==
  /\ IF DetailGate(c, shift_id).kind # "pass"
     THEN UNCHANGED progress
     ELSE progress' = CompleteShift(progress, session[c].user_id, shift_id)
  /\ UNCHANGED <<user, shift, shift_step, note, seq, now, session, req>>

add_note(c, shift_id, raw) ==
  /\ IF DetailGate(c, shift_id).kind # "pass"
     THEN UNCHANGED <<note, now>>
     ELSE AddNote(session[c].user_id, shift_id, raw)
  /\ UNCHANGED <<user, shift, shift_step, progress, seq, session, req>>

----------------------------------------------------------------------------
(* Spec: the application from a fresh install, one request at a time, any  *)
(* client registering, logging in and out and asking for admin access.     *)
(* The requests address the first shift and its first step.                *)

FirstShift == {1}
FirstStep == {1}
ShortTexts == { <<" ", "\r", "\n", "u", " ">> }

Next ==
  \/ \E raw \in RawEmails, password \in Passwords : register(raw, password)
  \/ \E c \in Sessions, raw \in RawEmails, password \in Passwords : login(c, raw, password)
  \/ \E c \in Sessions : logout(c)
  \/ \E c \in Sessions : dashboard(c)
  \/ \E c \in Sessions : shifts(c)
  \/ \E c \in Sessions, password \in Passwords : admin_access(c, password)
  \/ \E c \in Sessions, title \in Titles, text \in ShortTexts : admin(c, title, text)
  \/ \E c \in Sessions, shift_id \in FirstShift, title \in Titles, text \in ShortTexts :
        edit_shift(c, shift_id, title, text)
  \/ \E c \in Sessions, shift_id \in FirstShift : delete_shift(c, shift_id)
  \/ \E c \in Sessions, shift_id \in FirstShift : select_shift(c, shift_id)
  \/ \E c \in Sessions, shift_id \in FirstShift, step_id \in FirstStep :
        toggle(c, shift_id, step_id)
  \/ \E c \in Sessions, shift_id \in FirstShift : complete_shift(c, shift_id)
  \/ \E c \in Sessions, shift_id \in FirstShift, raw \in NoteContents :
        add_note(c, shift_id, raw)

Spec == Init /\ [][Next]_vars

----------------------------------------------------------------------------
(* SpecWork: one request at a time, after the worker b@x registered and    *)
(* logged in on client c1 and client c2 was given admin access.  The       *)
(* requests address every shift and step.                                  *)

Worker == [id |-> 2, email |-> <<"b", "@", "x">>,
           password |-> generate_password_hash("pw"), is_admin |-> 0]

InitWork ==
  /\ user = {[id |-> 1, email |-> AdminEmail,
              password |-> generate_password_hash(AdminPassword), is_admin |-> 1],
             Worker}
  /\ shift = {}
  /\ shift_step = {}
  /\ progress = EmptyBag
  /\ note = EmptyBag
  /\ seq = [user |-> 2, shift |-> 0, shift_step |-> 0]
  /\ now = 0
  /\ session = [c \in Sessions |->
                  IF c = "c1" THEN [user_id |-> 2, is_admin_access |-> FALSE]
                  ELSE [user_id |-> 0, is_admin_access |-> TRUE]]
  /\ req = [c \in Sessions |-> Idle]

NextWork ==
  \/ \E c \in Sessions : dashboard(c)
  \/ \E c \in Sessions, title \in Titles, text \in StepsTexts : admin(c, title, text)
  \/ \E c \in Sessions, shift_id \in ShiftIds, title \in Titles, text \in StepsTexts :
        edit_shift(c, shift_id, title, text)
  \/ \E c \in Sessions, shift_id \in ShiftIds : delete_shift(c, shift_id)
  \/ \E c \in Sessions, shift_id \in ShiftIds : select_shift(c, shift_id)
  \/ \E c \in Sessions, shift_id \in ShiftIds, step_id \in StepIds :
        toggle(c, shift_id, step_id)
  \/ \E c \in Sessions, shift_id \in ShiftIds : complete_shift(c, shift_id)
  \/ \E c \in Sessions, shift_id \in ShiftIds, raw \in NoteContents :
        add_note(c, shift_id, raw)

SpecWork == InitWork /\ [][NextWork]_vars

----------------------------------------------------------------------------
(* shift_detail and edit_shift statement by statement, for requests that   *)
(* are served at the same time.  The form of a request is drawn when it is *)
(* first used.                                                             *)

Actions == {"select_shift", "toggle", "complete_shift", "add_note"}

(* login_required, then SELECT * FROM shift WHERE id=? *)
shift_detail_begin(c, shift_id, action, step_id) ==
  /\ req[c].pc = "idle"
  /\ IF DetailGate(c, shift_id).kind # "pass"
     THEN UNCHANGED req
     ELSE req' = [req EXCEPT ![c] =
                    [Idle EXCEPT !.pc = "steps", !.action = action, !.shift_id = shift_id,
                                 !.user_id = session[c].user_id,
                                 !.step_id = IF action = "toggle" THEN step_id ELSE 0]]
  /\ UNCHANGED <<tables, now, session>>

(* SELECT * FROM shift_step WHERE shift_id=? ORDER BY position; only
   select_shift uses the list *)
shift_detail_steps(c) ==
  /\ req[c].pc = "steps"
  /\ req' = [req EXCEPT ![c].pc = "act",
                        ![c].steps = IF req[c].action = "select_shift"
                                     THEN SelectSteps(req[c].shift_id) ELSE <<>>]
  /\ UNCHANGED <<tables, now, session>>

shift_detail_select(c) ==
  /\ req[c].pc = "act" /\ req[c].action = "select_shift"
  /\ SelectWrite(req[c].user_id, req[c].shift_id, req[c].steps)
  /\ req' = [req EXCEPT ![c] = Idle]
  /\ UNCHANGED <<user, shift, shift_step, note, seq, session>>

(* SELECT completed FROM progress WHERE ...; row = cur.fetchone() *)
shift_detail_toggle(c) ==
  /\ req[c].pc = "act" /\ req[c].action = "toggle"
  /\ LET read == ToggleRead(req[c].user_id, req[c].shift_id, req[c].step_id)
     IN IF read = {}
        THEN req' = [req EXCEPT ![c] = Idle]
        ELSE \E completed \in read :
               req' = [req EXCEPT ![c].pc = "update", ![c].row = completed]
  /\ UNCHANGED <<tables, now, session>>

(* if row: UPDATE progress SET completed=?, timestamp=? ...; commit *)
shift_detail_update(c) ==
  /\ req[c].pc = "update"
  /\ ToggleUpdate(req[c].user_id, req[c].shift_id, req[c].step_id, req[c].row)
  /\ req' = [req EXCEPT ![c] = Idle]
  /\ UNCHANGED <<user, shift, shift_step, note, seq, session>>

shift_detail_complete(c) ==
  /\ req[c].pc = "act" /\ req[c].action = "complete_shift"
  /\ progress' = CompleteShift(progress, req[c].user_id, req[c].shift_id)
  /\ req' = [req EXCEPT ![c] = Idle]
  /\ UNCHANGED <<user, shift, shift_step, note, seq, now, session>>

shift_detail_add_note(c, raw) ==
  /\ req[c].pc = "act" /\ req[c].action = "add_note"
  /\ AddNote(req[c].user_id, req[c].shift_id, raw)
  /\ req' = [req EXCEPT ![c] = Idle]
  /\ UNCHANGED <<user, shift, shift_step, progress, seq, session>>

(* the admin-access check, then SELECT * FROM shift WHERE id=? *)
edit_shift_begin(c, shift_id) ==
  /\ req[c].pc = "idle"
  /\ IF ~session[c].is_admin_access \/ ShiftById(shift_id) = {}
     THEN UNCHANGED req
     ELSE req' = [req EXCEPT ![c] =
                    [Idle EXCEPT !.pc = "edit", !.action = "edit", !.shift_id = shift_id]]
  /\ UNCHANGED <<tables, now, session>>

(* the POST branch: one transaction *)
edit_shift_post(c, title, text) ==
  /\ req[c].pc = "edit"
  /\ EditShift(req[c].shift_id, title, text)
  /\ req' = [req EXCEPT ![c] = Idle]
  /\ UNCHANGED <<user, progress, note, now, session>>

(* SpecConc: a threaded server.  Two clients of the registered worker, the
   second with admin access, on an empty shift table; the requests address
   the first shift. *)
InitConc ==
  /\ user = {[id |-> 1, email |-> AdminEmail,
              password |-> generate_password_hash(AdminPassword), is_admin |-> 1],
             Worker}
  /\ shift = {}
  /\ shift_step = {}
  /\ progress = EmptyBag
  /\ note = EmptyBag
  /\ seq = [user |-> 2, shift |-> 0, shift_step |-> 0]
  /\ now = 0
  /\ session = [c \in Sessions |-> [user_id |-> 2, is_admin_access |-> (c = "c2")]]
  /\ req = [c \in Sessions |-> Idle]

NextConc ==
  \/ \E c \in Sessions, title \in Titles, text \in StepsTexts : admin(c, title, text)
  \/ \E c \in Sessions, shift_id \in FirstShift : delete_shift(c, shift_id)
  \/ \E c \in Sessions, shift_id \in FirstShift : edit_shift_begin(c, shift_id)
  \/ \E c \in Sessions, title \in Titles, text \in StepsTexts : edit_shift_post(c, title, text)
  \/ \E c \in Sessions, shift_id \in FirstShift, action \in Actions, step_id \in StepIds :
        shift_detail_begin(c, shift_id, action, step_id)
  \/ \E c \in Sessions : shift_detail_steps(c)
  \/ \E c \in Sessions : shift_detail_select(c)
  \/ \E c \in Sessions : shift_detail_toggle(c)
  \/ \E c \in Sessions : shift_detail_update(c)
  \/ \E c \in Sessions : shift_detail_complete(c)
  \/ \E c \in Sessions, raw \in NoteContents : shift_detail_add_note(c, raw)

SpecConc == InitConc /\ [][NextConc]_vars

----------------------------------------------------------------------------
(* Properties *)

(* number of rows (ids) of bag table b among rows *)
RowCount(b, rows) == BagCardinality([p \in rows |-> b[p]])

ShiftExists(shift_id) == \E x \in shift : x.id = shift_id

(* C1: after select_shift of an authenticated user u on an existing shift s,
   the progress rows of (u, s) are exactly one incomplete row per current
   step of s, whatever rows (u, s) had before. *)
C1_SelectResets ==
  [][\A c \in Sessions, s \in ShiftIds :
       (is_authenticated(c) /\ ShiftExists(s) /\ select_shift(c, s)) =>
         LET u == session[c].user_id
             after == {p \in DOMAIN progress' : p.user_id = u /\ p.shift_id = s}
         IN /\ \A t \in shift_step :
                 t.shift_id = s => RowCount(progress', {p \in after : p.step_id = t.id}) = 1
            /\ \A p \in after :
                 /\ p.completed = 0
                 /\ \E t \in shift_step : t.shift_id = s /\ t.id = p.step_id
            /\ RowCount(progress', after) = Cardinality({t \in shift_step : t.shift_id = s})
    ]_vars

(* the worker's rows of shift 1 are one incomplete row for step 2, the only
   step shift 1 has after an edit replaced its steps *)
C1_Witness ==
  /\ {t.id : t \in StepsOf(1)} = {2}
  /\ \E ts \in 0..MaxClock :
       [p \in ProgressOf(progress, 2, 1) |-> progress[p]] =
         SetToBag({[user_id |-> 2, shift_id |-> 1, step_id |-> 2,
                    completed |-> 0, timestamp |-> ts]})

(* C2: after an admin delete of shift s no row of shift, shift_step,
   progress or note belongs to s, and the rows of the other shifts are
   as they were. *)
C2_DeleteCascades ==
  [][\A c \in Sessions, s \in ShiftIds :
       (session[c].is_admin_access /\ delete_shift(c, s)) =>
         /\ shift' = {x \in shift : x.id # s}
         /\ shift_step' = {t \in shift_step : t.shift_id # s}
         /\ DOMAIN progress' = {p \in DOMAIN progress : p.shift_id # s}
         /\ \A p \in DOMAIN progress' : progress'[p] = progress[p]
         /\ DOMAIN note' = {n \in DOMAIN note : n.shift_id # s}
         /\ \A n \in DOMAIN note' : note'[n] = note[n]
    ]_vars

(* shift 1 and its step 1 are gone, shift 2 keeps its step, a progress row
   and a note *)
C2_Witness ==
  /\ seq.shift = 2 /\ ~ShiftExists(1) /\ ShiftExists(2)
  /\ {t.id : t \in shift_step} = {2} /\ {t.shift_id : t \in shift_step} = {2}
  /\ {p.shift_id : p \in DOMAIN progress} = {2}
  /\ {n.shift_id : n \in DOMAIN note} = {2}

(* C3: an admin handler changes a table only for a client whose session has
   is_admin_access; the flag is set only by an admin-access request with the
   passphrase; while no session has the flag the shift tables do not change. *)
C3_AdminGate ==
  [][/\ \A c \in Sessions :
          ~session[c].is_admin_access =>
            /\ \A title \in Titles, text \in StepsTexts :
                 admin(c, title, text) => UNCHANGED <<shift, shift_step, progress, note>>
            /\ \A s \in ShiftIds, title \in Titles, text \in StepsTexts :
                 edit_shift(c, s, title, text) => UNCHANGED <<shift, shift_step, progress, note>>
            /\ \A s \in ShiftIds :
                 delete_shift(c, s) => UNCHANGED <<shift, shift_step, progress, note>>
            /\ \A password \in Passwords \ {"admin123"} :
                 admin_access(c, password) => ~session'[c].is_admin_access
            /\ session'[c].is_admin_access => admin_access(c, "admin123")
     /\ (\A c \in Sessions : ~session[c].is_admin_access) =>
          Cardinality(shift') = Cardinality(shift) /\ UNCHANGED <<shift, shift_step>>
    ]_vars

(* the admin account is logged in on a client without admin access while
   a shift created by the other client exists *)
C3_Witness ==
  /\ \E c \in Sessions : session[c].user_id = 1 /\ ~session[c].is_admin_access
  /\ \E c \in Sessions : session[c].is_admin_access
  /\ shift # {}

(* C4: a toggle of step t flips the completed flag of the row (u, s, t) and
   changes no other row; without such a row it changes nothing; toggling
   twice returns the flag. *)
C4_ToggleFlips ==
  [][\A c \in Sessions, s \in ShiftIds, t \in StepIds :
       (is_authenticated(c) /\ ShiftExists(s) /\ toggle(c, s, t)) =>
         LET u == session[c].user_id
             before == {p \in DOMAIN progress :
                          p.user_id = u /\ p.shift_id = s /\ p.step_id = t}
             after == {p \in DOMAIN progress' :
                          p.user_id = u /\ p.shift_id = s /\ p.step_id = t}
         IN IF before = {}
            THEN progress' = progress
            ELSE /\ RowCount(progress', after) = RowCount(progress, before)
                 /\ {p.completed : p \in after} = {1 - p.completed : p \in before}
                 /\ \A p \in (DOMAIN progress) \ before :
                      p \in DOMAIN progress' /\ progress'[p] = progress[p]
                 /\ BagCardinality(progress') = BagCardinality(progress)
                 /\ \A q \in after :
                      \A r \in DOMAIN UpdateRows(progress', after, NewCompleted(q.completed), now') :
                         (r.user_id = u /\ r.shift_id = s /\ r.step_id = t) =>
                            r.completed \in {p.completed : p \in before}
    ]_vars

(* a row of the worker is completed, which only a toggle does *)
C4_Witness ==
  \E p \in DOMAIN progress : p.user_id = 2 /\ p.completed = 1

(* a user row with this email as the forms normalise it *)
Registered(raw) == \E u \in user : lower(strip(u.email)) = lower(strip(raw))

(* a user row with this email and this password *)
Credentials(raw, password) ==
  {u \in user : u.email = lower(strip(raw)) /\ u.password = generate_password_hash(password)}

Blank(raw) == \A i \in 1..Len(raw) : IsSpace(raw[i])

(* C5: a register request with the email of an existing user adds no user
   row and answers with the error, so no two user rows share an email; an
   add_note request with blank content adds no note row and answers with
   the warning, so no note row is blank. *)
C5_ValidationNoChange ==
  /\ \A u1, u2 \in user : lower(strip(u1.email)) = lower(strip(u2.email)) => u1 = u2
  /\ \A raw \in RawEmails :
       Registered(raw) =>
         /\ register_response(raw).kind = "render"
         /\ register_response(raw).target = "register.html"
         /\ register_response(raw).flash # ""
  /\ \A n \in DOMAIN note : ~Blank(n.content)
  /\ \A raw \in NoteContents :
       Blank(raw) => add_note_response(raw).flash = "Poznamka nesmi byt prazdna."

(* the worker is registered next to the admin account and a note is stored *)
C5_Witness ==
  /\ Cardinality(user) = 2
  /\ {u.email : u \in user} = {AdminEmail, <<"b", "@", "x">>}
  /\ note # EmptyBag

(* what the login_required handlers answer to each session *)
Served ==
  \A c \in Sessions :
    IF is_authenticated(c)
    THEN \A r \in dashboard_response(c) : r.kind = "render" /\ r.target = "dashboard.html"
    ELSE /\ dashboard_response(c) = {Redirect("login", "Please log in to access this page.")}
         /\ shifts_response(c).kind = "redirect" /\ shifts_response(c).target = "login"
         /\ \A s \in ShiftIds :
              DetailGate(c, s).kind = "redirect" /\ DetailGate(c, s).target = "login"

(* a login that matches no user row gets the one failure page *)
OneLoginFailure ==
  \A raw \in RawEmails, password \in Passwords :
    Credentials(raw, password) = {} =>
      login_response(raw, password) = Render("login.html", "Spatne prihlasovaci udaje")

(* C6: a session becomes authenticated only by a login with the password of
   an existing user and stays so until its logout; a failed login gives one
   and the same response and changes no session; an authenticated session is
   served the dashboard, an unauthenticated one is sent to login by every
   protected handler and writes no progress or note row.  Every state has a login or a logout
   step leaving it, so Served is looked at in every reachable state;
   OneLoginFailure reads the user table only and is looked at in the first
   state and whenever the table changes. *)
C6_SessionAuth ==
  [][/\ Served
     /\ (user' # user \/ Cardinality(user) = 1) => OneLoginFailure /\ OneLoginFailure'
     /\ \A c \in Sessions :
          session'[c].user_id # session[c].user_id =>
            \/ is_authenticated(c) /\ logout(c) /\ ~is_authenticated(c)'
            \/ \E raw \in RawEmails, password \in Passwords :
                 /\ login(c, raw, password)
                 /\ \E u \in Credentials(raw, password) : session'[c].user_id = u.id
     /\ (progress' # progress \/ note' # note) =>
          \E c \in Sessions, s \in ShiftIds :
            \/ /\ is_authenticated(c)
               /\ \/ select_shift(c, s)
                  \/ complete_shift(c, s)
                  \/ \E t \in StepIds : toggle(c, s, t)
                  \/ \E raw \in NoteContents : add_note(c, s, raw)
            \/ session[c].is_admin_access /\ delete_shift(c, s)
    ]_vars

(* the worker is logged in on c1 and has a progress row and a note, the
   other client is logged out *)
C6_Witness ==
  /\ session["c1"].user_id = 2 /\ session["c2"].user_id = 0
  /\ \E p \in DOMAIN progress : p.user_id = 2
  /\ \E n \in DOMAIN note : n.user_id = 2

(* C7: at most one progress row per (user_id, shift_id, step_id), also
   with requests in flight at the same time. *)
C7_OneRowPerStep ==
  \A p \in DOMAIN progress :
    RowCount(progress, {q \in DOMAIN progress :
                          /\ q.user_id = p.user_id
                          /\ q.shift_id = p.shift_id
                          /\ q.step_id = p.step_id}) = 1

(* both clients of the worker are past their reads of a select_shift on
   shift 1, and rows of an earlier selection are there *)
C7_Witness ==
  /\ \A c \in Sessions :
       /\ req[c].pc = "act" /\ req[c].action = "select_shift"
       /\ req[c].shift_id = 1 /\ req[c].steps # <<>>
  /\ ProgressOf(progress, 2, 1) # {}

(* the shifts for which u has a row that is not completed *)
OpenShifts(u) ==
  {x.id : x \in {y \in shift : \E p \in DOMAIN progress :
                    p.user_id = u /\ p.shift_id = y.id /\ p.completed = 0}}

LastTouched(u, s) ==
  CHOOSE m \in 0..MaxClock :
    /\ \E p \in DOMAIN progress : p.user_id = u /\ p.shift_id = s /\ p.timestamp = m
    /\ \A p \in DOMAIN progress : (p.user_id = u /\ p.shift_id = s) => p.timestamp <= m

Shown(c) == {r.current_shift : r \in dashboard_response(c)}

(* the dashboard of an authenticated session shows a latest open shift *)
ShowsLatestOpen ==
  \A c \in Sessions :
    is_authenticated(c) =>
      LET u == session[c].user_id
      IN /\ Shown(c) # {}
         /\ (OpenShifts(u) = {}) <=> (Shown(c) = {0})
         /\ OpenShifts(u) # {} =>
              /\ Shown(c) \subseteq OpenShifts(u)
              /\ \A x \in Shown(c), o \in OpenShifts(u) :
                   LastTouched(u, o) <= LastTouched(u, x)

(* C8: the dashboard of u shows a shift iff u has a row that is not
   completed for some shift; the shift shown is one of those with the
   greatest latest timestamp; right after complete_shift on s it does not
   show s; the dashboard request changes no table. *)
C8_Dashboard ==
  [][/\ ShowsLatestOpen /\ ShowsLatestOpen'
     /\ \A c \in Sessions :
          /\ \A s \in ShiftIds :
               (is_authenticated(c) /\ ShiftExists(s) /\ complete_shift(c, s)) =>
                 s \notin Shown(c)'
          /\ dashboard(c) => UNCHANGED tables
    ]_vars

(* the worker has open rows on both shifts, shift 1 touched last, and the
   dashboard shows shift 1 *)
C8_Witness ==
  /\ OpenShifts(2) = {1, 2}
  /\ LastTouched(2, 2) < LastTouched(2, 1)
  /\ Shown("c1") = {1}

NonBlank(line) == line # <<>>

(* the non-blank trimmed lines of a steps text, in order *)
ExpectedLines(text) ==
  LET parts == split(text)
  IN SelectSeq([i \in 1..Len(parts) |-> strip(parts[i])], NonBlank)

StepsAre(rows, lines) ==
  /\ Cardinality(rows) = Len(lines)
  /\ {<<t.position, t.description>> : t \in rows} = {<<i, lines[i]>> : i \in 1..Len(lines)}

(* C9: after a create or an edit the steps of the shift are the non-blank
   trimmed lines of the text at positions 1..k; an edit removes the old
   steps, gives the new ones ids never used before and leaves progress as
   it is, so the progress rows of the shift reference no step. *)
C9_StepsFromText ==
  [][\A c \in Sessions, title \in Titles, text \in StepsTexts :
       session[c].is_admin_access =>
         /\ admin(c, title, text) =>
              /\ \E x \in shift' : x.id = seq.shift + 1
              /\ StepsAre({t \in shift_step' : t.shift_id = seq.shift + 1}, ExpectedLines(text))
         /\ \A s \in ShiftIds :
              (ShiftExists(s) /\ edit_shift(c, s, title, text)) =>
                LET new == {t \in shift_step' : t.shift_id = s}
                IN /\ StepsAre(new, ExpectedLines(text))
                   /\ \A t \in new : t.id > seq.shift_step
                   /\ \A t \in new, o \in shift_step : t.id # o.id
                   /\ \A o \in shift_step : o.shift_id = s => o \notin shift_step'
                   /\ progress' = progress
                   /\ \A p \in DOMAIN progress' :
                        p.shift_id = s => \A t \in shift_step' : t.id # p.step_id
    ]_vars

(* a progress row of an existing shift references a step that an edit
   removed, and the shift has its new steps *)
C9_Witness ==
  \E p \in DOMAIN progress :
    /\ ShiftExists(p.shift_id)
    /\ StepsOf(p.shift_id) # {}
    /\ \A t \in shift_step : t.id # p.step_id

(* C10: every progress row and every note row has the shift_id of a shift
   row that exists, also when a shift_detail request and an admin delete of
   the same shift are served at the same time. *)
C10_ShiftReferences ==
  /\ \A p \in DOMAIN progress : ShiftExists(p.shift_id)
  /\ \A n \in DOMAIN note : ShiftExists(n.shift_id)

====
